---- MODULE Spec2Model ----
(***************************************************************************)
(* Model of src/Robotics/makeFunction.py (bilinear surface sampler,        *)
(* extrema, Riemann-sum volume) and src/Robotics/terrainGenerator.py       *)
(* (spectral terrain synthesizer on the process-wide numpy generator).     *)
(*                                                                         *)
(* Numbers.  The code computes in IEEE doubles; the model computes in      *)
(* exact rationals <<n, d>> (d > 0, lowest terms), so "equal" here means   *)
(* "equal up to floating-point rounding" there.  <<0, 0>> is NaN, the      *)
(* value numpy produces for 0.0 / 0.0.                                     *)
(***************************************************************************)
EXTENDS Integers, Sequences, FiniteSets, TLC

VARIABLES surf, pc, out, rng, last, ref, thr, serialized

vars == <<surf, pc, out, rng, last, ref, thr, serialized>>

(***************************************************************************)
(* Bounds of the model.                                                    *)
(***************************************************************************)
\* Largest number of rows / columns of a sampled field.
MaxDim == 2
\* Axis extents (min, max) a surface is built over; <<0, 0>> and <<2, 2>>
\* are the degenerate extents with min = max.
Extents == {<<0, 0>>, <<0, 1>>, <<0, 3>>, <<1, 3>>, <<2, 2>>}

\* Cell values of the sampled fields.
FieldValues == {0, 1}

(***************************************************************************)
(* Exact rational arithmetic (stands for float64 arithmetic).              *)
(***************************************************************************)
RECURSIVE GCD(_, _)
GCD(a, b) == IF b = 0 THEN a ELSE GCD(b, a % b)

Abs(n) == IF n < 0 THEN -n ELSE n

NaN == <<0, 0>>

IsNaN(a) == a[2] = 0

Norm(n, d) ==
    LET g == GCD(Abs(n), d) IN <<n \div g, d \div g>>

Rat(n) == <<n, 1>>

RAdd(a, b) ==
    IF IsNaN(a) \/ IsNaN(b) THEN NaN
    ELSE Norm(a[1] * b[2] + b[1] * a[2], a[2] * b[2])

RSub(a, b) ==
    IF IsNaN(a) \/ IsNaN(b) THEN NaN
    ELSE Norm(a[1] * b[2] - b[1] * a[2], a[2] * b[2])

RMul(a, b) ==
    IF IsNaN(a) \/ IsNaN(b) THEN NaN
    ELSE Norm(a[1] * b[1], a[2] * b[2])

\* Float division: 0/0 is NaN.  A nonzero numerator over zero (an infinity)
\* cannot occur in this code: the only division by a zero cell size has a
\* clamped, hence zero, numerator; it is mapped to NaN as well.
RDiv(a, b) ==
    IF IsNaN(a) \/ IsNaN(b) \/ b[1] = 0 THEN NaN
    ELSE IF b[1] > 0 THEN Norm(a[1] * b[2], a[2] * b[1])
    ELSE Norm(-(a[1] * b[2]), a[2] * (-b[1]))

\* Comparisons with NaN are false, as in IEEE arithmetic.
RLe(a, b) == ~IsNaN(a) /\ ~IsNaN(b) /\ a[1] * b[2] <= b[1] * a[2]

RLt(a, b) == ~IsNaN(a) /\ ~IsNaN(b) /\ a[1] * b[2] < b[1] * a[2]

RMin(a, b) == IF RLe(a, b) THEN a ELSE b

RMax(a, b) == IF RLe(a, b) THEN b ELSE a

\* np.floor on a finite value.
RFloor(a) == a[1] \div a[2]

\* The function fn on 0..n, entry by entry (each entry computed once).
RECURSIVE Entries(_, _)
Entries(fn, n) ==
    IF n = 0 THEN (0 :> fn[0]) ELSE Entries(fn, n - 1) @@ (n :> fn[n])

\* The array with entries F(0), ..., F(n): a function on 0..n.
Tabulate(n, F(_)) == Entries([i \in 0..n |-> F(i)], n)

\* The Height x Width array with entries F(m, n), indexed from 0.
Array2(Height, Width, F(_, _)) ==
    Tabulate(Height - 1, LAMBDA m : Tabulate(Width - 1, LAMBDA n : F(m, n)))

(***************************************************************************)
(* numpy helpers used by makeFunction.py.                                  *)
(***************************************************************************)
\* np.linspace(a, b, n): n points, step (b - a)/(n - 1); a alone when n = 1.
linspace(a, b, n) ==
    Tabulate(n - 1, LAMBDA i :
        IF n = 1 THEN a
        ELSE RAdd(a, RMul(Rat(i), RDiv(RSub(b, a), Rat(n - 1)))))

\* np.clip(v, lo, hi) == minimum(maximum(v, lo), hi)
clip(v, lo, hi) == RMin(RMax(v, lo), hi)

\* np.clip on integers.
clipInt(i, lo, hi) ==
    LET m == IF i < lo THEN lo ELSE i IN IF m > hi THEN hi ELSE m

\* Casting NaN to int is undefined in C: numpy yields INT64_MIN on x86-64
\* and 0 on AArch64.  IntMin stands for INT64_MIN: below every index range.
IntMin == -1000000

NanCasts == {IntMin, 0}

\* np.floor(v).astype(int)
floorInt(v, nanCast) == IF IsNaN(v) THEN nanCast ELSE RFloor(v)

\* matrix[i] on an axis of length n: indices -n..n-1 are valid, negative
\* ones count from the end; anything else raises IndexError.
IndexOk(i, n) == -n <= i /\ i < n

Wrap(i, n) == IF i < 0 THEN i + n ELSE i

(***************************************************************************)
(* makeFunction.py                                                         *)
(***************************************************************************)
\* Cell size of an axis with n samples over [lo, hi].
cellSizePerSample(lo, hi, n) ==
    IF n > 1 THEN RDiv(RSub(hi, lo), Rat(n)) ELSE Rat(1)

cellSize(lo, hi, n) ==
    IF n > 1 THEN RDiv(RSub(hi, lo), Rat(n - 1)) ELSE Rat(1)

\* (1 - frac) * a + frac * b: the blend of two corner (or edge) heights.
blendSwapped(frac, a, b) == RAdd(RMul(frac, a), RMul(RSub(Rat(1), frac), b))

blend(frac, a, b) == RAdd(RMul(RSub(Rat(1), frac), a), RMul(frac, b))

\* _bilinear_interp(matrix, x, y, x_grid, y_grid) for scalar x, y.
\* H, W are the lengths of y_grid, x_grid; nc is what the platform makes of
\* a NaN cast to int.
bilinear_interp(matrix, x, y, x_grid, y_grid, H, W, nc) ==
    LET xc == clip(x, x_grid[0], x_grid[W - 1])
        yc == clip(y, y_grid[0], y_grid[H - 1])
        dx == cellSize(x_grid[0], x_grid[W - 1], W)
        dy == cellSize(y_grid[0], y_grid[H - 1], H)
        ix == RDiv(RSub(xc, x_grid[0]), dx)
        iy == RDiv(RSub(yc, y_grid[0]), dy)
        left_col  == floorInt(ix, nc)
        bot_row   == floorInt(iy, nc)
        right_col == clipInt(left_col + 1, 0, W - 1)
        top_row   == clipInt(bot_row + 1, 0, H - 1)
        frac_x == RSub(ix, Rat(left_col))
        frac_y == RSub(iy, Rat(bot_row))
        ok == IndexOk(left_col, W) /\ IndexOk(bot_row, H)
        cell(r, c) == Rat(matrix[Wrap(r, H)][Wrap(c, W)])
        z_bottom == blend(frac_x, cell(bot_row, left_col), cell(bot_row, right_col))
        z_top    == blend(frac_x, cell(top_row, left_col), cell(top_row, right_col))
    IN  [status |-> IF ok THEN "ok" ELSE "IndexError",
         left_col |-> left_col, right_col |-> right_col,
         bot_row |-> bot_row, top_row |-> top_row,
         frac_x |-> frac_x, frac_y |-> frac_y,
         value |-> IF ok THEN blend(frac_y, z_bottom, z_top) ELSE NaN]

\* generateFunction(matrix, x_extent, y_extent): the surface (f, meta).
generateFunction(matrix, H, W, x_extent, y_extent) ==
    [matrix |-> matrix, H |-> H, W |-> W,
     x_grid |-> linspace(Rat(x_extent[1]), Rat(x_extent[2]), W),
     y_grid |-> linspace(Rat(y_extent[1]), Rat(y_extent[2]), H),
     dx |-> cellSize(Rat(x_extent[1]), Rat(x_extent[2]), W),
     dy |-> cellSize(Rat(y_extent[1]), Rat(y_extent[2]), H),
     x_extent |-> x_extent, y_extent |-> y_extent]

\* The closure f(x, y) returned by generateFunction.
f(s, x, y, nc) ==
    bilinear_interp(s.matrix, x, y, s.x_grid, s.y_grid, s.H, s.W, nc)

\* np.argmin / np.argmax over the flattened (row-major) matrix: a left to
\* right scan that keeps the first index holding the extreme value.
RECURSIVE argScan(_, _, _, _, _, _)
argScan(matrix, W, n, k, best, wantMax) ==
    IF k = n THEN best
    ELSE LET v == matrix[k \div W][k % W]
             b == matrix[best \div W][best % W]
             better == IF wantMax THEN v > b ELSE v < b
         IN  argScan(matrix, W, n, k + 1, IF better THEN k ELSE best, wantMax)

\* The scan that keeps the last index holding the extreme value.
RECURSIVE argScanLast(_, _, _, _, _, _)
argScanLast(matrix, W, n, k, best, wantMax) ==
    IF k = n THEN best
    ELSE LET v == matrix[k \div W][k % W]
             b == matrix[best \div W][best % W]
             better == IF wantMax THEN v >= b ELSE v <= b
         IN  argScanLast(matrix, W, n, k + 1, IF better THEN k ELSE best, wantMax)

argminLast(matrix, H, W) == argScanLast(matrix, W, H * W, 1, 0, FALSE)

argmin(matrix, H, W) == argScan(matrix, W, H * W, 1, 0, FALSE)

argmax(matrix, H, W) == argScan(matrix, W, H * W, 1, 0, TRUE)

\* np.unravel_index(k, (H, W)) == (row, col)
unravel_index(k, W) == <<k \div W, k % W>>

\* find_extrema(matrix, x_extent, y_extent)
find_extrema(matrix, H, W, x_extent, y_extent) ==
    LET jmin == unravel_index(argmin(matrix, H, W), W)
        jmax == unravel_index(argmax(matrix, H, W), W)
        x_grid == linspace(Rat(x_extent[1]), Rat(x_extent[2]), W)
        y_grid == linspace(Rat(y_extent[1]), Rat(y_extent[2]), H)
    IN  [min_val |-> matrix[jmin[1]][jmin[2]],
         min_at  |-> <<x_grid[jmin[2]], y_grid[jmin[1]]>>,
         max_val |-> matrix[jmax[1]][jmax[2]],
         max_at  |-> <<x_grid[jmax[2]], y_grid[jmax[1]]>>]

\* z.sum() of z = matrix - baseline, clipped at 0 when positive_only.
RECURSIVE zsum(_, _, _, _, _)
zsum(matrix, W, k, baseline, positive_only) ==
    IF k = 0 THEN 0
    ELSE LET z == matrix[(k - 1) \div W][(k - 1) % W] - baseline
         IN  (IF positive_only /\ z < 0 THEN 0 ELSE z)
             + zsum(matrix, W, k - 1, baseline, positive_only)

\* volume_under_surface(matrix, x_extent, y_extent, baseline, positive_only)
volume_under_surface(matrix, H, W, x_extent, y_extent, baseline, positive_only) ==
    LET dx == cellSize(Rat(x_extent[1]), Rat(x_extent[2]), W)
        dy == cellSize(Rat(y_extent[1]), Rat(y_extent[2]), H)
    IN  RMul(RMul(Rat(zsum(matrix, W, H * W, baseline, positive_only)), dx), dy)

(***************************************************************************)
(* terrainGenerator.py                                                     *)
(*                                                                         *)
(* Magnitudes.  The synthesizer mixes quantities 24 orders of magnitude    *)
(* apart: the DC magnitude 1e-6 (amplitude 1e12 at alpha = 2, 1e-12 at     *)
(* alpha = -2) and the 1e-12 added to the normalization denominator.  A    *)
(* value is therefore kept as <<hi, mid, lo>>, standing for                *)
(* hi * 1e12 + mid + lo * 1e-12 with rational hi, mid, lo, and compared    *)
(* limb by limb (every limb here is far smaller than 1e12).  A normalized  *)
(* cell is the quotient [num, den] of two such values.                     *)
(*                                                                         *)
(* Phases.  The generator yields u in {0, 1/4, 1/2, 3/4}, so a phase       *)
(* u * 2 * pi is a whole number q of quarter turns and its cosine and      *)
(* sine are exact; with 1, 2 or 4 samples per axis the inverse DFT's       *)
(* twiddle factors are quarter turns as well.  alpha is even, so that      *)
(* freq ** alpha is rational.                                              *)
(***************************************************************************)
LZero == <<Rat(0), Rat(0), Rat(0)>>

LAdd(a, b) == <<RAdd(a[1], b[1]), RAdd(a[2], b[2]), RAdd(a[3], b[3])>>

LSub(a, b) == <<RSub(a[1], b[1]), RSub(a[2], b[2]), RSub(a[3], b[3])>>

LScale(r, a) == <<RMul(r, a[1]), RMul(r, a[2]), RMul(r, a[3])>>

LLt(a, b) ==
    \/ RLt(a[1], b[1])
    \/ a[1] = b[1] /\ RLt(a[2], b[2])
    \/ a[1] = b[1] /\ a[2] = b[2] /\ RLt(a[3], b[3])

LLe(a, b) == a = b \/ LLt(a, b)

\* The process-wide generator behind np.random: its state is one of RngMod
\* values; seeding fixes the state from the seed alone, every draw advances
\* it and yields the next uniform number, here in quarter units.
RngMod == 8

RngStates == 0..(RngMod - 1)

\* seed=None
NoSeed == -1

\* np.random.seed(seed), left out.
seedIgnored(seed, g) == g

\* np.random.seed(seed)
npRandomSeed(seed, g) == (7 * seed + 3) % RngMod

rngNext(g) == (5 * g + 1) % RngMod

rngOutput(g) == (g \div 2) % 4

RECURSIVE rngAdvance(_, _)
rngAdvance(g, n) == IF n = 0 THEN g ELSE rngAdvance(rngNext(g), n - 1)

\* np.random.rand(Height, Width): Height*Width draws in row-major order.
npRandomRand(Height, Width, g) ==
    [u |-> Array2(Height, Width,
                   LAMBDA m, n : rngOutput(rngAdvance(g, m * Width + n + 1))),
     rng |-> rngAdvance(g, Height * Width)]

\* np.fft.fftfreq(n)[k], n >= 1: k/n for the first (n-1)//2 + 1 entries,
\* (k - n)/n for the rest.
fftfreq(n, k) ==
    IF k < ((n - 1) \div 2) + 1 THEN Norm(k, n) ELSE Norm(k - n, n)

\* np.fft.fftfreq(n) fails for n < 1: 1.0/(n*d) divides by zero for n = 0,
\* and a negative n is no array length.
fftfreqError(n) ==
    IF n = 0 THEN "ZeroDivisionError" ELSE IF n < 0 THEN "ValueError" ELSE "ok"

\* freq ** 2 == kx**2 + ky**2 at row k, column l (before the DC fix).
freqSquared(Height, Width, k, l) ==
    LET ky == fftfreq(Height, k)
        kx == fftfreq(Width, l)
    IN  RAdd(RMul(kx, kx), RMul(ky, ky))

\* r ** e for a rational r # 0 and an integer e.
RECURSIVE RPow(_, _)
RPow(r, e) ==
    IF e = 0 THEN Rat(1)
    ELSE IF e > 0 THEN RMul(r, RPow(r, e - 1))
    ELSE RDiv(RPow(r, e + 1), r)

\* 1.0 / freq ** alpha at (k, l), with freq[0, 0] = 1e-6: the DC amplitude
\* is (1e-6) ** -alpha, that is 1e12, 1 or 1e-12 for alpha = 2, 0, -2.
amplitude(Height, Width, alpha, k, l) ==
    IF k = 0 /\ l = 0
    THEN (IF alpha = 2 THEN <<Rat(1), Rat(0), Rat(0)>>
          ELSE IF alpha = 0 THEN <<Rat(0), Rat(1), Rat(0)>>
          ELSE <<Rat(0), Rat(0), Rat(1)>>)
    ELSE <<Rat(0), RPow(freqSquared(Height, Width, k, l), -(alpha \div 2)), Rat(0)>>

\* cos and sin of q quarter turns.
cosq(q) == CASE q % 4 = 0 -> 1 [] q % 4 = 1 -> 0 [] q % 4 = 2 -> -1 [] OTHER -> 0

sinq(q) == cosq(q + 3)

\* np.fft.ifft2(spectrum).real at cell (m, n): the real part of
\* sum over (k, l) of spectrum[k, l] * exp(2 pi i (m k/Height + n l/Width)),
\* divided by Height*Width, with
\* spectrum[k, l] = amplitude * (cos(phase) + 1j * sin(phase)).
RECURSIVE ifft2Real(_, _, _, _, _, _, _)
ifft2Real(Height, Width, alpha, u, m, n, j) ==
    IF j = 0 THEN LZero
    ELSE LET k == (j - 1) \div Width
             l == (j - 1) % Width
             turn == (4 \div Height) * m * k + (4 \div Width) * n * l
             re == cosq(u[k][l]) * cosq(turn) - sinq(u[k][l]) * sinq(turn)
         IN  LAdd(LScale(<<re, Height * Width>>,
                         amplitude(Height, Width, alpha, k, l)),
                  ifft2Real(Height, Width, alpha, u, m, n, j - 1))

spectralField(Height, Width, alpha, u) ==
    Array2(Height, Width,
           LAMBDA m, n : ifft2Real(Height, Width, alpha, u, m, n, Height * Width))

\* field.min() and field.max()
fieldMin(field, Height, Width) ==
    CHOOSE v \in {field[m][n] : m \in 0..(Height - 1), n \in 0..(Width - 1)} :
        \A m \in 0..(Height - 1), n \in 0..(Width - 1) : LLe(v, field[m][n])

fieldMax(field, Height, Width) ==
    CHOOSE v \in {field[m][n] : m \in 0..(Height - 1), n \in 0..(Width - 1)} :
        \A m \in 0..(Height - 1), n \in 0..(Width - 1) : LLe(field[m][n], v)

\* The 1e-12 added to the denominator.
DenomEps == <<Rat(0), Rat(0), Rat(1)>>

\* The normalization without the first subtraction of the minimum.
normalizeUnshifted(field, Height, Width) ==
    LET denom == LAdd(LSub(fieldMax(field, Height, Width),
                           fieldMin(field, Height, Width)), DenomEps)
    IN  Array2(Height, Width,
               LAMBDA m, n : [num |-> field[m][n], den |-> denom])

\* field -= field.min(); denom = field.max() - field.min() + 1e-12;
\* field /= denom
normalize(field, Height, Width) ==
    LET lo == fieldMin(field, Height, Width)
        shifted == Array2(Height, Width, LAMBDA m, n : LSub(field[m][n], lo))
        denom == LAdd(LSub(fieldMax(shifted, Height, Width),
                           fieldMin(shifted, Height, Width)), DenomEps)
    IN  Array2(Height, Width,
               LAMBDA m, n : [num |-> shifted[m][n], den |-> denom])

\* generate_topology(Height, Width, alpha, seed) entered with the generator
\* in state g: the outcome and the state the generator is left in.
generate_topology(Height, Width, alpha, seed, g) ==
    LET g1 == IF seed # NoSeed THEN npRandomSeed(seed, g) ELSE g
        err == IF fftfreqError(Height) # "ok" THEN fftfreqError(Height)
               ELSE fftfreqError(Width)
    IN  IF err # "ok"
        THEN [status |-> err, rng |-> g1]
        ELSE LET drawn == npRandomRand(Height, Width, g1)
                 raw == spectralField(Height, Width, alpha, drawn.u)
             IN  [status |-> "ok", rng |-> drawn.rng,
                  field |-> normalize(raw, Height, Width)]


(***************************************************************************)
(* The sampler as a state machine: a surface is built once (Init) and then *)
(* serves calls; each call returns before the next one starts.             *)
(***************************************************************************)
Matrices(H, W) == [0..(H - 1) -> [0..(W - 1) -> FieldValues]]

NoCall == [op |-> "none"]

\* Query coordinates along one axis: one step outside either end, every grid
\* value, and the points a quarter and half way between consecutive ones.
AxisQueries(grid, n, lo, hi) ==
    {Rat(lo - 1), Rat(hi + 1)}
    \cup {grid[i] : i \in 0..(n - 1)}
    \cup {RAdd(grid[i], RMul(t, RSub(grid[i + 1], grid[i]))) :
             i \in 0..(n - 2), t \in {<<1, 4>>, <<1, 2>>}}

Baselines == {0, 1}

NoSynth == [status |-> "none"]

NoThreads == <<>>

NoSurface == [H |-> 0, W |-> 0]

InitSampler ==
    /\ \E H \in 1..MaxDim, W \in 1..MaxDim :
       \E matrix \in Matrices(H, W), x_extent \in Extents, y_extent \in Extents :
          surf = generateFunction(matrix, H, W, x_extent, y_extent)
    /\ pc = "idle"
    /\ out = NoCall
    /\ rng = 0
    /\ last = NoSynth
    /\ ref = NoSynth
    /\ thr = NoThreads
    /\ serialized = FALSE

\* f(x, y)
Sample ==
    /\ pc = "idle"
    /\ \E x \in AxisQueries(surf.x_grid, surf.W, surf.x_extent[1], surf.x_extent[2]),
          y \in AxisQueries(surf.y_grid, surf.H, surf.y_extent[1], surf.y_extent[2]),
          nc \in NanCasts :
          out' = [op |-> "sample", x |-> x, y |-> y, nc |-> nc,
                  res |-> f(surf, x, y, nc)]
    /\ pc' = "returned"
    /\ UNCHANGED <<surf, rng, last, ref, thr, serialized>>

FindExtrema ==
    /\ pc = "idle"
    /\ out' = [op |-> "extrema",
               res |-> find_extrema(surf.matrix, surf.H, surf.W,
                                    surf.x_extent, surf.y_extent)]
    /\ pc' = "returned"
    /\ UNCHANGED <<surf, rng, last, ref, thr, serialized>>

Volume ==
    /\ pc = "idle"
    /\ \E baseline \in Baselines, positive_only \in BOOLEAN :
          out' = [op |-> "volume", baseline |-> baseline,
                  positive_only |-> positive_only,
                  res |-> volume_under_surface(surf.matrix, surf.H, surf.W,
                              surf.x_extent, surf.y_extent, baseline, positive_only)]
    /\ pc' = "returned"
    /\ UNCHANGED <<surf, rng, last, ref, thr, serialized>>

\* The caller takes the result; the surface is unchanged and can be used again.
Return ==
    /\ pc = "returned"
    /\ pc' = "idle"
    /\ out' = NoCall
    /\ UNCHANGED <<surf, rng, last, ref, thr, serialized>>

Next == Sample \/ FindExtrema \/ Volume \/ Return

Spec == InitSampler /\ [][Next]_vars

(***************************************************************************)
(* The synthesizer called again and again from one thread.  `last` is the  *)
(* latest call with its outcome.                                           *)
(***************************************************************************)
\* Heights and widths passed to generate_topology; -1 and 0 are invalid.
SynthDims == {-1, 0, 1, 2}

Alphas == {-2, 0, 2}

Seeds == {NoSeed, 1, 2}

InitSynth ==
    /\ rng \in RngStates
    /\ last = NoSynth
    /\ ref = NoSynth
    /\ surf = NoSurface
    /\ pc = "idle"
    /\ out = NoCall
    /\ thr = NoThreads
    /\ serialized = FALSE

\* The record of one call: its arguments and what it returned or raised.
CallRecord(Height, Width, alpha, seed, r) ==
    [status |-> r.status, Height |-> Height, Width |-> Width,
     alpha |-> alpha, seed |-> seed,
     field |-> IF r.status = "ok" THEN r.field ELSE <<>>]

Synthesize ==
    \E Height \in SynthDims, Width \in SynthDims, alpha \in Alphas, seed \in Seeds :
        LET r == generate_topology(Height, Width, alpha, seed, rng)
        IN  /\ rng' = r.rng
            /\ last' = CallRecord(Height, Width, alpha, seed, r)
            /\ UNCHANGED <<ref, surf, pc, out, thr, serialized>>

NextSynth == Synthesize

SpecSynth == InitSynth /\ [][NextSynth]_vars

(***************************************************************************)
(* The same calls, with a memory of an earlier one: `ref` is the first     *)
(* seeded call that returned a field, and `between` tells whether a call   *)
(* other than a repetition of it has run since.                            *)
(***************************************************************************)
RepeatDims == {0, 1, 2}

RepeatAlphas == {0, 2}

SynthesizeAgain ==
    \E Height \in RepeatDims, Width \in RepeatDims, alpha \in RepeatAlphas,
       seed \in Seeds :
        LET r == generate_topology(Height, Width, alpha, seed, rng)
            call == CallRecord(Height, Width, alpha, seed, r)
        IN  /\ rng' = r.rng
            /\ last' = call
            /\ ref' = IF ref.status = "none"
                      THEN (IF r.status = "ok" /\ seed # NoSeed
                            THEN [status |-> "ok", call |-> call, between |-> FALSE]
                            ELSE ref)
                      ELSE [ref EXCEPT !.between = @ \/ call # ref.call]
            /\ UNCHANGED <<surf, pc, out, thr, serialized>>

NextRepeat == SynthesizeAgain

SpecRepeat == InitSynth /\ [][NextRepeat]_vars

(***************************************************************************)
(* Two threads, each making one seeded call.  What the interpreter runs    *)
(* atomically is one step: the reseeding (np.random.seed holds the         *)
(* generator's lock), the drawing (so does np.random.rand), and the        *)
(* thread-local rest.  When the caller serializes, a call starts only      *)
(* while no other call is in progress.                                     *)
(***************************************************************************)
Threads == {1, 2}

ThreadDims == {1, 2}

ThreadAlphas == {2}

ThreadSeeds == {1, 2}

InitThreads ==
    /\ rng \in RngStates
    /\ serialized \in BOOLEAN
    /\ thr \in [Threads -> {[pc |-> "idle", Height |-> h, Width |-> w,
                             alpha |-> a, seed |-> sd, u |-> <<>>, field |-> <<>>] :
                               h \in ThreadDims, w \in ThreadDims,
                               a \in ThreadAlphas, sd \in ThreadSeeds}]
    /\ last = NoSynth
    /\ ref = NoSynth
    /\ surf = NoSurface
    /\ pc = "idle"
    /\ out = NoCall

InProgress(t) == thr[t].pc \in {"seed", "draw", "compute"}

\* The thread enters generate_topology.
Call(t) ==
    /\ thr[t].pc = "idle"
    /\ serialized => \A o \in Threads : ~InProgress(o)
    /\ thr' = [thr EXCEPT ![t].pc = "seed"]
    /\ UNCHANGED <<rng, serialized, surf, pc, out, last, ref>>

\* The step with the reseeding left out.
SeedStepSkipped(t) ==
    /\ thr[t].pc = "seed"
    /\ thr' = [thr EXCEPT ![t].pc = "draw"]
    /\ UNCHANGED <<rng, serialized, surf, pc, out, last, ref>>

\* if seed is not None: np.random.seed(seed)
SeedStep(t) ==
    /\ thr[t].pc = "seed"
    /\ rng' = IF thr[t].seed # NoSeed THEN npRandomSeed(thr[t].seed, rng) ELSE rng
    /\ thr' = [thr EXCEPT ![t].pc = "draw"]
    /\ UNCHANGED <<serialized, surf, pc, out, last, ref>>

\* phase = np.random.rand(Height, Width) * 2 * np.pi
DrawStep(t) ==
    /\ thr[t].pc = "draw"
    /\ LET drawn == npRandomRand(thr[t].Height, thr[t].Width, rng)
       IN  /\ rng' = drawn.rng
           /\ thr' = [thr EXCEPT ![t].pc = "compute", ![t].u = drawn.u]
    /\ UNCHANGED <<serialized, surf, pc, out, last, ref>>

\* spectrum, inverse transform, normalization, return.
ReturnStep(t) ==
    /\ thr[t].pc = "compute"
    /\ thr' = [thr EXCEPT ![t].pc = "done", ![t].u = <<>>,
                          ![t].field = normalize(
                               spectralField(thr[t].Height, thr[t].Width,
                                             thr[t].alpha, thr[t].u),
                               thr[t].Height, thr[t].Width)]
    /\ UNCHANGED <<rng, serialized, surf, pc, out, last, ref>>

NextThreads ==
    \E t \in Threads : Call(t) \/ SeedStep(t) \/ DrawStep(t) \/ ReturnStep(t)

SpecThreads == InitThreads /\ [][NextThreads]_vars


(***************************************************************************)
(* Properties of the sampler.                                              *)
(***************************************************************************)
Strict(ext) == ext[1] < ext[2]

IsSample == pc = "returned" /\ out.op = "sample"

Rows == 0..(surf.H - 1)

Cols == 0..(surf.W - 1)

\* C1. Interpolation exactness: over extents with xmin < xmax and
\* ymin < ymax, a sample taken at a grid point (x_grid[c], y_grid[r])
\* succeeds and returns field[r][c].
C1_InterpolationExact ==
    (IsSample /\ Strict(surf.x_extent) /\ Strict(surf.y_extent)) =>
        \A r \in Rows, c \in Cols :
            (out.x = surf.x_grid[c] /\ out.y = surf.y_grid[r]) =>
                /\ out.res.status = "ok"
                /\ out.res.value = Rat(surf.matrix[r][c])

\* A 2 x 2 field with distinct cells on its diagonal, sampled at its last
\* grid point (the far corner), which returns that cell.
C1_Witness ==
    /\ IsSample /\ Strict(surf.x_extent) /\ Strict(surf.y_extent)
    /\ surf.H = 2 /\ surf.W = 2
    /\ surf.matrix[1][1] = 1 /\ surf.matrix[0][0] = 0 /\ surf.matrix[0][1] = 0
    /\ out.x = surf.x_grid[1] /\ out.y = surf.y_grid[1]
    /\ out.res.value = Rat(1)

\* What sample(x, y) is required to equal when (x, y) lies outside the
\* extents: the sample at the nearest point of the domain.
Clamped(v, ext) ==
    IF RLt(v, Rat(ext[1])) THEN Rat(ext[1])
    ELSE IF RLt(Rat(ext[2]), v) THEN Rat(ext[2]) ELSE v

OutOfDomain ==
    \/ RLt(out.x, Rat(surf.x_extent[1])) \/ RLt(Rat(surf.x_extent[2]), out.x)
    \/ RLt(out.y, Rat(surf.y_extent[1])) \/ RLt(Rat(surf.y_extent[2]), out.y)

\* C2. Boundary clamping: a query outside the extents never fails and
\* returns what the query clamped to the boundary (xmin or xmax, ymin or
\* ymax) returns.
C2_BoundaryClamping ==
    (IsSample /\ OutOfDomain) =>
        LET edge == f(surf, Clamped(out.x, surf.x_extent),
                      Clamped(out.y, surf.y_extent), out.nc)
        IN  /\ out.res.status = "ok"
            /\ ~IsNaN(out.res.value)
            /\ out.res.value = edge.value

\* The same statement restricted to axes whose cell size is not zero
\* (min < max, or a single sample): this much the code does guarantee.
ProperAxes ==
    /\ (surf.W = 1 \/ Strict(surf.x_extent))
    /\ (surf.H = 1 \/ Strict(surf.y_extent))

C2_ClampingOnProperAxes == ProperAxes => C2_BoundaryClamping

\* Fractions t of the way from one grid value to the next.
LineFractions == {<<0, 1>>, <<1, 4>>, <<1, 2>>, <<1, 1>>}

\* The values the linearity property demands of the sample in `out`.
LinearDemands ==
    {blend(t, Rat(surf.matrix[r][c]), Rat(surf.matrix[r][c + 1])) :
        <<r, c, t>> \in
            {p \in Rows \X (0..(surf.W - 2)) \X LineFractions :
                /\ out.y = surf.y_grid[p[1]]
                /\ out.x = RAdd(surf.x_grid[p[2]],
                                RMul(p[3], RSub(surf.x_grid[p[2] + 1],
                                                surf.x_grid[p[2]])))}}

\* C8. Linearity along a grid row: at y = y_grid[r] and
\* x = x_grid[c] + t * (x_grid[c+1] - x_grid[c]), t in [0, 1], the sample is
\* (1 - t) * field[r][c] + t * field[r][c+1].  Stated for the queries of
\* which the property demands one value only (where grid values coincide it
\* can demand several).
C8_LinearAlongRow ==
    (IsSample /\ Cardinality(LinearDemands) = 1) =>
        /\ out.res.status = "ok"
        /\ out.res.value \in LinearDemands

C8_LinearOnProperAxes == ProperAxes => C8_LinearAlongRow

\* C9. Index safety: for every query on every grid, the corner indices
\* satisfy 0 <= lower <= upper <= count - 1 on each axis and both fractional
\* offsets lie in [0, 1], so no field access is out of bounds.
C9_IndexSafety ==
    IsSample =>
        /\ 0 <= out.res.left_col /\ out.res.left_col <= out.res.right_col
        /\ out.res.right_col <= surf.W - 1
        /\ 0 <= out.res.bot_row /\ out.res.bot_row <= out.res.top_row
        /\ out.res.top_row <= surf.H - 1
        /\ RLe(Rat(0), out.res.frac_x) /\ RLe(out.res.frac_x, Rat(1))
        /\ RLe(Rat(0), out.res.frac_y) /\ RLe(out.res.frac_y, Rat(1))
        /\ out.res.status = "ok"

C9_IndexSafetyOnProperAxes == ProperAxes => C9_IndexSafety

IsVolume == pc = "returned" /\ out.op = "volume"

\* The field is constant, of value c.
ConstantField(c) == \A r \in Rows, k \in Cols : surf.matrix[r][k] = c

\* sum(field), row by row.
RECURSIVE RowSum(_, _)
RowSum(row, n) == IF n = 0 THEN 0 ELSE row[n - 1] + RowSum(row, n - 1)

RECURSIVE FieldSum(_, _, _)
FieldSum(matrix, n, W) ==
    IF n = 0 THEN 0 ELSE RowSum(matrix[n - 1], W) + FieldSum(matrix, n - 1, W)

\* Side lengths of the domain.
Lx == surf.x_extent[2] - surf.x_extent[1]

Ly == surf.y_extent[2] - surf.y_extent[1]

IsExtrema == pc = "returned" /\ out.op = "extrema"

\* Position k of cell (r, c) in the row-major scan.
ScanPos(r, c) == r * surf.W + c

\* (r, c) is the first cell of the row-major scan holding value v.
FirstHolding(r, c, v) ==
    /\ surf.matrix[r][c] = v
    /\ \A r2 \in Rows, c2 \in Cols :
          ScanPos(r2, c2) < ScanPos(r, c) => surf.matrix[r2][c2] # v

\* C7. Extrema consistency: the minimum is <= and the maximum >= every grid
\* sample; each is reported at the coordinate (x_grid[col], y_grid[row]) of
\* the first cell holding it in row-major order, on the sampler's own grids.
C7_ExtremaConsistent ==
    IsExtrema =>
        /\ \A r \in Rows, c \in Cols :
              /\ out.res.min_val <= surf.matrix[r][c]
              /\ out.res.max_val >= surf.matrix[r][c]
        /\ \E r \in Rows, c \in Cols :
              /\ FirstHolding(r, c, out.res.min_val)
              /\ out.res.min_at = <<surf.x_grid[c], surf.y_grid[r]>>
        /\ \E r \in Rows, c \in Cols :
              /\ FirstHolding(r, c, out.res.max_val)
              /\ out.res.max_at = <<surf.x_grid[c], surf.y_grid[r]>>

\* A 2 x 2 field in which both extremes occur twice, on distinct grid
\* coordinates: [[1, 0], [0, 1]].
C7_Witness ==
    /\ IsExtrema /\ surf.H = 2 /\ surf.W = 2
    /\ Strict(surf.x_extent) /\ Strict(surf.y_extent)
    /\ surf.matrix[0][0] = 1 /\ surf.matrix[0][1] = 0
    /\ surf.matrix[1][0] = 0 /\ surf.matrix[1][1] = 1
    /\ out.res.min_at = <<surf.x_grid[1], surf.y_grid[0]>>
    /\ out.res.max_at = <<surf.x_grid[0], surf.y_grid[0]>>

(***************************************************************************)
(* Properties of the synthesizer.                                          *)
(***************************************************************************)
SameArguments(a, b) ==
    /\ a.Height = b.Height /\ a.Width = b.Width
    /\ a.alpha = b.alpha /\ a.seed = b.seed

\* C3. Determinism: a seeded call returns the field the earlier call with
\* the same height, width, alpha and seed returned, whatever state the
\* generator was in before either call and whatever calls ran in between.
C3_Deterministic ==
    (/\ ref.status = "ok"
     /\ last.status = "ok" /\ last.seed # NoSeed
     /\ SameArguments(last, ref.call)) =>
        last.field = ref.call.field

\* A seeded 2 x 2 call repeated after other calls, returning a field that
\* is not flat.
C3_Witness ==
    /\ ref.status = "ok" /\ ref.between
    /\ last.status = "ok" /\ last.seed # NoSeed
    /\ SameArguments(last, ref.call)
    /\ last.Height = 2 /\ last.Width = 2
    /\ last.field[0][0].den # DenomEps
    /\ last.field = ref.call.field

Cells(c) == (0..(c.Height - 1)) \X (0..(c.Width - 1))

\* A normalized cell num/den (den > 0) compared with 0 and 1.
CellInUnit(q) == LLe(LZero, q.num) /\ LLe(q.num, q.den)

CellIsZero(q) == q.num = LZero

\* 1 within a tolerance of 1e-6: den - num <= 1e-6 * den.
CellIsOne(q) == LLe(LSub(q.den, q.num), LScale(<<1, 1000000>>, q.den))

\* C4 as stated. Normalization bounds: for any valid H, W and alpha, H = W = 1
\* and constant fields included, every value of the returned field lies in
\* [0, 1], and 0 and 1 are each attained at least once.
C4_ZeroAndOneAttained ==
    last.status = "ok" =>
        /\ \A p \in Cells(last) : CellInUnit(last.field[p[1]][p[2]])
        /\ \E p \in Cells(last) : CellIsZero(last.field[p[1]][p[2]])
        /\ \E p \in Cells(last) : CellIsOne(last.field[p[1]][p[2]])

\* The un-normalized field was constant: its range, the denominator less
\* 1e-12, is zero.
WasConstant(c) == c.field[0][0].den = DenomEps

\* C4 as amended. Every value lies in [0, 1] and the minimum 0 is attained;
\* the maximum is r/(r + 1e-12), r the range of the un-normalized field:
\* it is 1 within tolerance when r is at least 1e-3, and when the field is
\* constant, as it is for H = W = 1, every value is 0 and none is 1.
C4_NormalizedRange ==
    last.status = "ok" =>
        /\ \A p \in Cells(last) : CellInUnit(last.field[p[1]][p[2]])
        /\ \E p \in Cells(last) : CellIsZero(last.field[p[1]][p[2]])
        /\ \E p \in Cells(last) :
              LET q == last.field[p[1]][p[2]]
              IN  /\ LSub(q.den, q.num) = DenomEps
                  /\ \A o \in Cells(last) : LLe(last.field[o[1]][o[2]].num, q.num)
        /\ LLe(<<Rat(0), <<1, 1000>>, Rat(0)>>, last.field[0][0].den) =>
              \E p \in Cells(last) : CellIsOne(last.field[p[1]][p[2]])
        /\ (last.Height = 1 /\ last.Width = 1) => WasConstant(last)
        /\ WasConstant(last) =>
              \A p \in Cells(last) :
                  /\ CellIsZero(last.field[p[1]][p[2]])
                  /\ ~CellIsOne(last.field[p[1]][p[2]])

\* A 2 x 2 field at alpha = 2 that is not flat: it holds a 0 and a value
\* within tolerance of 1.
C4_Witness ==
    /\ last.status = "ok" /\ last.Height = 2 /\ last.Width = 2 /\ last.alpha = 2
    /\ ~WasConstant(last)
    /\ \E p \in Cells(last) : CellIsZero(last.field[p[1]][p[2]])
    /\ \E p \in Cells(last) : CellIsOne(last.field[p[1]][p[2]])

Rejected(c) == c.status \notin {"ok", "none"}

\* C5. Invalid-dimension error: a call with height < 1 or width < 1 fails
\* before any computation: it returns no field and leaves the process-wide
\* generator as it found it, neither reseeded nor consumed.
C5_RejectedBeforeAnyEffect ==
    [][/\ (last'.Height < 1 \/ last'.Width < 1) => Rejected(last')
       /\ Rejected(last') => (last'.field = <<>> /\ rng' = rng)]_vars

\* What the code does guarantee of such a call: it fails, returns no field
\* and draws nothing; the generator is left reseeded when a seed was given.
C5_RejectedButReseeded ==
    [][/\ (last'.Height < 1 \/ last'.Width < 1) => Rejected(last')
       /\ Rejected(last') =>
             /\ last'.field = <<>>
             /\ rng' = IF last'.seed # NoSeed
                       THEN npRandomSeed(last'.seed, rng) ELSE rng]_vars

\* What thread t's call returns when it runs alone (a seeded call does not
\* read the state the generator starts in).
Alone(t) ==
    generate_topology(thr[t].Height, thr[t].Width, thr[t].alpha,
                      thr[t].seed, 0).field

\* C10. Concurrent synthesis is unsafe unless serialized: when the caller
\* serializes the calls, each returns exactly the field it returns when run
\* alone.  (Without serialization a call can return another field: the
\* witness.)
C10_SerializedCallsAreSequential ==
    serialized =>
        \A t \in Threads : thr[t].pc = "done" => thr[t].field = Alone(t)

\* Both calls have returned, unserialized, and one of them returned a field
\* that differs from the one it returns alone.
C10_Witness ==
    /\ ~serialized
    /\ \A t \in Threads : thr[t].pc = "done"
    /\ \E t \in Threads : thr[t].field # Alone(t)

====
